---- MODULE Spec2Model ----
(***************************************************************************)
(* Transactions.ipynb: sessions (psycopg2 connections) on the accounts     *)
(* table, and the money transfer of Exercise 2.                            *)
(*                                                                         *)
(* Money is counted in cents (2000.0 is 200000), a fee rate in percent     *)
(* (0.01 is 1), so that round(x, 2) is integer arithmetic.                 *)
(***************************************************************************)
EXTENDS Integers, FiniteSets, Sequences, TLC

\* ------------------------------------------------------------ bounds

\* Account ids range over 0..MaxId; ids above the rows of setUp do not exist.
MaxId == 3

\* ------------------------------------------------------- the program

\* conn1 and conn2 of the notebook; the unit test's self.conn is one of them.
Conns == {"conn1", "conn2"}

Ids == 0 .. MaxId

\* "the bank's account (id 0)"
BankId == 0

\* The first rows setUp inserts: (0, 0.0), (1, 2000.0), (2, 520.0).
SetUpRows == (0 :> 0) @@ (1 :> 200000) @@ (2 :> 52000)

\* psycopg2.extensions.ISOLATION_LEVEL_*; DEFAULT is READ COMMITTED.
IsolationLevels == {"READ_COMMITTED", "REPEATABLE_READ", "SERIALIZABLE"}

\* Amounts a transfer is called with: 100.00 and 2000.00.
Amounts == {10000, 200000}

\* Fee rates a transfer is called with, in percent: 0 and 0.01.
FeeRates == {0, 1}

VARIABLES
    accounts,   \* the committed table: a function from the existing ids to balances
    session,    \* per connection: its session parameters, its transaction, and
                \* the outcome of its latest statement
    call,       \* per connection: its latest transfer_money invocation
    thread      \* the one thread of control of a notebook cell: its position
                \* in the cells it runs, and the connection whose execute has
                \* not returned

vars == <<accounts, session, call, thread>>

\* A table without rows.
NoRows == [i \in {} |-> 0]

\* round(amount * fee, 2), Python's round: half to even.
Fee(amount, fee) ==
    LET x == amount * fee
        q == x \div 100
        r == x % 100
    IN  IF r > 50 \/ (r = 50 /\ q % 2 = 1) THEN q + 1 ELSE q

\* A connection as psycopg2.connect returns it and setUp configures it:
\* set_session(autocommit=True).
\* It has no transaction: no snapshot, no row written or deleted; no SELECT
\* has been fetched and no statement has raised.
Connected ==
    [autocommit |-> TRUE, readonly |-> FALSE,
     isolation_level |-> "READ_COMMITTED", status |-> "READY", closed |-> FALSE,
     snapshot |-> NoRows, written |-> NoRows, deleted |-> {},
     fetched |-> {}, raised |-> "None"]

NoCall ==
    [pc |-> "idle", src |-> 0, dst |-> 0, amount |-> 0, fee |-> 0,
     pre |-> SetUpRows, post |-> SetUpRows, raised |-> "None", overlapped |-> {}]

\* No cell is being run: no statement is waiting.
NoThread == [pc |-> 0, waits |-> "None"]

\* setUp has run: the table holds its rows, every connection is as it left it.
Init ==
    /\ accounts = SetUpRows
    /\ session = [c \in Conns |-> Connected]
    /\ call = [c \in Conns |-> NoCall]
    /\ thread = NoThread

\* As Init, after conn.set_session(isolation_level=ISOLATION_LEVEL_SERIALIZABLE)
\* on every connection.
InitSerializable ==
    /\ accounts = SetUpRows
    /\ session = [c \in Conns |-> [Connected EXCEPT !.isolation_level = "SERIALIZABLE"]]
    /\ call = [c \in Conns |-> NoCall]
    /\ thread = NoThread

\* cur.execute("DELETE FROM accounts WHERE id=0;") on the test's connection,
\* which setUp put in auto-commit mode: the statement is its own transaction.
execute_delete(c, id) ==
    /\ ~session[c].closed
    /\ session[c].autocommit
    /\ ~session[c].readonly
    /\ call[c].pc # "running"
    /\ id \in DOMAIN accounts
    /\ accounts' = [i \in DOMAIN accounts \ {id} |-> accounts[i]]
    /\ UNCHANGED <<session, call>>

\* The effect a transfer is specified to have on ledger l: the three deltas,
\* added up per row.
Applied(l, src, dst, amount, fee) ==
    LET f == Fee(amount, fee)
        delta(i) == (IF i = src THEN 0 - (amount + f) ELSE 0)
                    + (IF i = dst THEN amount ELSE 0)
                    + (IF i = BankId THEN f ELSE 0)
    IN  [i \in DOMAIN l |-> l[i] + delta(i)]

\* transfer_money as it would be with the fee debited from the source account
\* but never credited to the bank's account.
transfer_money_fee_lost(conn, ledger, src, dst, amount, fee) ==
    IF {src, dst, BankId} \subseteq DOMAIN ledger
          /\ ledger[src] >= amount + Fee(amount, fee)
    THEN [session |-> conn,
          ledger |-> [Applied(ledger, src, dst, amount, fee) EXCEPT
                         ![BankId] = @ - Fee(amount, fee)],
          raised |-> "None"]
    ELSE [session |-> conn, ledger |-> ledger, raised |-> "Exception"]

\* transfer_money as it would be without the check of the source's balance.
transfer_money_unchecked(conn, ledger, src, dst, amount, fee) ==
    IF {src, dst, BankId} \subseteq DOMAIN ledger
    THEN [session |-> conn, ledger |-> Applied(ledger, src, dst, amount, fee),
          raised |-> "None"]
    ELSE [session |-> conn, ledger |-> ledger, raised |-> "Exception"]

\* transfer_money as it would be if it executed a statement with autocommit =
\* False and returned without commit() or rollback().
transfer_money_left_open(conn, ledger, src, dst, amount, fee) ==
    [session |-> [conn EXCEPT !.autocommit = FALSE, !.status = "BEGIN"],
     ledger |-> ledger, raised |-> "None"]

\* The body of transfer_money: a docstring, a comment and `pass`. It returns
\* None, raises nothing, and touches neither the table nor the connection.
transfer_money(conn, ledger, src, dst, amount, fee) ==
    [session |-> conn, ledger |-> ledger, raised |-> "None"]

\* transfer_money(conn, src, dst, amount, fee) is entered on connection c.
TransferCall(c, src, dst, amount, fee) ==
    /\ call[c].pc # "running"
    /\ call' = [d \in Conns |->
                 IF d = c
                 THEN [NoCall EXCEPT !.pc = "running", !.src = src, !.dst = dst,
                                     !.amount = amount, !.fee = fee,
                                     !.overlapped =
                                        {e \in Conns \ {c} : call[e].pc = "running"}]
                 ELSE IF call[d].pc = "running"
                      THEN [call[d] EXCEPT !.overlapped = @ \cup {c}]
                      ELSE call[d]]
    /\ UNCHANGED <<accounts, session>>

\* The body runs and the invocation returns (or raises).
TransferReturn(c) ==
    /\ call[c].pc = "running"
    /\ LET r == call[c]
           out == transfer_money(session[c], accounts, r.src, r.dst, r.amount, r.fee)
       IN  /\ accounts' = out.ledger
           /\ session' = [session EXCEPT ![c] = out.session]
           /\ call' = [call EXCEPT ![c] =
                         [r EXCEPT !.pc = "done", !.pre = accounts, !.post = out.ledger,
                                   !.raised = out.raised]]

\* The tests run outside the notebook's cells.
Next ==
    \/ \E c \in Conns : execute_delete(c, BankId) /\ UNCHANGED thread
    \/ \E c \in Conns, src \in Ids, dst \in Ids, amount \in Amounts, fee \in FeeRates :
           TransferCall(c, src, dst, amount, fee) /\ UNCHANGED thread
    \/ \E c \in Conns : TransferReturn(c) /\ UNCHANGED thread

Spec == Init /\ [][Next]_vars

\* The same operations on connections set to SERIALIZABLE.
SerializableSpec == InitSerializable /\ [][Next]_vars

\* ------------------------------------------- requests of any kind

\* transfer_money takes whatever src, dst, amount and fee its caller passes:
\* two of setUp's accounts and an id setUp does not insert; an amount of 0 and
\* the tests' 100; the tests' fee of 1 percent and a fee of 101 percent.
RequestParties == {1, 2, MaxId}
RequestAmounts == {0, 10000}
RequestFeeRates == {1, 101}

RequestNext ==
    \/ \E c \in Conns, src \in RequestParties, dst \in RequestParties,
          amount \in RequestAmounts, fee \in RequestFeeRates :
           TransferCall(c, src, dst, amount, fee) /\ UNCHANGED thread
    \/ \E c \in Conns : TransferReturn(c) /\ UNCHANGED thread

\* A call that was entered runs: the Python interpreter executes the body of
\* transfer_money to its end.
RequestSpec ==
    Init /\ [][RequestNext]_vars /\ \A c \in Conns : WF_vars(TransferReturn(c) /\ UNCHANGED thread)

\* ------------------------------------------- the notebook's sessions

\* A row is updated (committed or pending) at most MaxUpdates times.
MaxUpdates == 1

\* The isolation levels the notebook's set_session calls name: DEFAULT (READ
\* COMMITTED) and REPEATABLE READ.
NotebookLevels == {"READ_COMMITTED", "REPEATABLE_READ"}

\* reset_db's first rows: (1, 2000.0), (2, 520.0), (3, 470.0).
ResetRows == (1 :> 200000) @@ (2 :> 52000) @@ (3 :> 47000)

\* The statements of the notebook's cells:
\*   SELECT * FROM accounts WHERE id=3;
\*   UPDATE accounts SET balance = balance - 100 WHERE id=3;
\*   INSERT INTO accounts VALUES (6, 237.0);
\*   DELETE FROM accounts WHERE id=...;
Statements ==
    {[op |-> "SELECT", id |-> i, arg |-> 0] : i \in {3}}
    \cup {[op |-> "UPDATE", id |-> 3, arg |-> 0 - 10000]}
    \cup {[op |-> "INSERT", id |-> 6, arg |-> 23700]}
    \cup {[op |-> "DELETE", id |-> 6, arg |-> 0]}

\* fetchall() after SELECT * FROM accounts WHERE id=...: a list of at most one
\* row.
RowOf(l, id) == IF id \in DOMAIN l THEN {<<id, l[id]>>} ELSE {}

\* fetchall() after the SELECT stmt: the rows of l it names, by one id or,
\* as id=1 OR id=3 and SELECT * do, by several.
Fetched(l, stmt) ==
    IF "ids" \in DOMAIN stmt
    THEN UNION {RowOf(l, i) : i \in stmt.ids}
    ELSE RowOf(l, stmt.id)

\* Table l with the rows of w written over it and the rows of del deleted.
Overlay(l, w, del) ==
    [i \in (DOMAIN l \ del) \cup DOMAIN w |-> IF i \in DOMAIN w THEN w[i] ELSE l[i]]

\* Base as it would be if every statement read the latest committed rows,
\* whatever the isolation level.
Base_latest(c) == accounts

\* The committed rows a statement on connection c reads: the latest committed
\* ones, or, inside a transaction above READ COMMITTED, those "from the
\* beginning of the transaction".
Base(c) ==
    IF session[c].status = "BEGIN" /\ session[c].isolation_level # "READ_COMMITTED"
    THEN session[c].snapshot
    ELSE accounts

\* The table as a statement on connection c sees it: the rows it reads, with
\* the changes of its own transaction.
View(c) == Overlay(Base(c), session[c].written, session[c].deleted)

\* Blocked as it would be if a statement never had to wait for a row.
Blocked_never(c, stmt) == FALSE

\* Another connection's transaction has changed the row stmt is to write and
\* has not finished: the lock cannot be acquired and the statement does not
\* terminate. An UPDATE or DELETE finds the rows that are committed, so it
\* passes by a row that is only inserted and not committed; an INSERT waits
\* for any unfinished change of its key.
Blocked(c, stmt) ==
    \E d \in Conns \ {c} :
        /\ stmt.id \in DOMAIN session[d].written \cup session[d].deleted
        /\ stmt.op = "INSERT" \/ stmt.id \in DOMAIN accounts

\* Row id was changed by a committed transaction after c's transaction took
\* its snapshot. The notebook's REPEATABLE READ transaction only reads; what
\* PostgreSQL does with a write to such a row is not modelled.
Changed(c, id) ==
    /\ session[c].status = "BEGIN"
    /\ session[c].isolation_level # "READ_COMMITTED"
    /\ RowOf(session[c].snapshot, id) # RowOf(accounts, id)

Abs(x) == IF x < 0 THEN 0 - x ELSE x

\* ErrorOf as it would be if a read-only connection accepted writes.
ErrorOf_writable(c, stmt) ==
    IF stmt.op = "INSERT" /\ stmt.id \in DOMAIN View(c) THEN "UniqueViolation"
    ELSE "None"

\* The exception cur.execute(stmt) raises on connection c, "None" if none:
\* a write on a read-only connection, a second row with a PRIMARY KEY.
ErrorOf(c, stmt) ==
    IF stmt.op # "SELECT" /\ session[c].readonly THEN "ReadOnlySqlTransaction"
    ELSE IF stmt.op = "INSERT" /\ stmt.id \in DOMAIN View(c) THEN "UniqueViolation"
    ELSE "None"

\* The rows connection c's transaction has written once stmt has run.
WrittenBy(c, stmt) ==
    LET v == View(c)
        w == session[c].written
    IN  IF stmt.op = "UPDATE" /\ stmt.id \in DOMAIN v
        THEN (stmt.id :> v[stmt.id] + stmt.arg) @@ w
        ELSE IF stmt.op = "INSERT" THEN (stmt.id :> stmt.arg) @@ w
        ELSE IF stmt.op = "DELETE" THEN [i \in DOMAIN w \ {stmt.id} |-> w[i]]
        ELSE w

\* The rows connection c's transaction has deleted once stmt has run.
DeletedBy(c, stmt) ==
    IF stmt.op = "DELETE" /\ stmt.id \in DOMAIN View(c)
    THEN session[c].deleted \cup {stmt.id}
    ELSE IF stmt.op = "INSERT" THEN session[c].deleted \ {stmt.id}
    ELSE session[c].deleted

\* The statement keeps its row within MaxUpdates updates of reset_db's balance.
WithinBound(c, stmt) ==
    (stmt.op = "UPDATE" /\ stmt.id \in DOMAIN View(c)) =>
        Abs(View(c)[stmt.id] + stmt.arg - ResetRows[stmt.id])
            <= MaxUpdates * Abs(stmt.arg)

\* Auto-commit mode, as it would be if it were never in force.
Autocommit_never(s) == FALSE

\* Auto-commit mode: "each call of cur.execute() is handled as an individual
\* transaction and will either have an immediate effect or fail".
Autocommit(s) == s.autocommit

\* cur.execute(stmt) on a cursor of connection c. With autocommit the
\* statement is a transaction of its own, committed on success; without, the
\* first execute begins a transaction and the statement's changes stay with
\* the connection. The notebook runs its failing statement with autocommit;
\* a failing statement inside a transaction is not modelled.
execute(c, stmt) ==
    LET s == session[c]
        error == ErrorOf(c, stmt)
        write == stmt.op # "SELECT" /\ error = "None"
        begun == [s EXCEPT !.status = IF Autocommit(s) THEN "READY" ELSE "BEGIN",
                           !.snapshot = IF Autocommit(s) \/ s.isolation_level = "READ_COMMITTED"
                                        THEN NoRows
                                        ELSE IF s.status = "READY" THEN accounts ELSE @,
                           !.raised = error]
    IN  /\ ~s.closed
        /\ error # "None" => Autocommit(s)
        /\ (stmt.op # "SELECT" /\ ~s.readonly) =>
               ~Blocked(c, stmt) /\ ~Changed(c, stmt.id)
        /\ accounts' = IF write /\ Autocommit(s)
                       THEN Overlay(accounts, WrittenBy(c, stmt), DeletedBy(c, stmt))
                       ELSE accounts
        /\ session' = [session EXCEPT ![c] =
                         IF stmt.op = "SELECT"
                         THEN [begun EXCEPT !.fetched = Fetched(View(c), stmt)]
                         ELSE IF write /\ ~Autocommit(s)
                         THEN [begun EXCEPT !.written = WrittenBy(c, stmt),
                                            !.deleted = DeletedBy(c, stmt)]
                         ELSE begun]
        /\ UNCHANGED call

\* set_session as it would be if the parameters could be set while a
\* transaction is being performed.
set_session_in_transaction(c, isolation_level, readonly, autocommit) ==
    /\ ~session[c].closed
    /\ session' = [session EXCEPT ![c] =
                     [@ EXCEPT !.isolation_level = isolation_level,
                               !.readonly = readonly,
                               !.autocommit = autocommit,
                               !.raised = "None"]]
    /\ UNCHANGED <<accounts, call>>

\* conn.set_session(isolation_level=..., readonly=..., autocommit=...), and
\* the assignments conn.readonly = ..., conn.autocommit = ...: "session
\* parameters of a connection can only be set if no transaction is currently
\* being performed on the connection".
set_session(c, isolation_level, readonly, autocommit) ==
    /\ ~session[c].closed
    /\ session' = [session EXCEPT ![c] =
                     IF @.status = "BEGIN"
                     THEN [@ EXCEPT !.raised = "ProgrammingError"]
                     ELSE [@ EXCEPT !.isolation_level = isolation_level,
                                    !.readonly = readonly,
                                    !.autocommit = autocommit,
                                    !.raised = "None"]]
    /\ UNCHANGED <<accounts, call>>

\* The connection without its transaction.
Ended(s) ==
    [s EXCEPT !.status = "READY", !.snapshot = NoRows, !.written = NoRows,
              !.deleted = {}, !.raised = "None"]

\* commit as it would be if it ended the transaction without making its
\* changes persistent.
commit_not_persistent(c) ==
    /\ ~session[c].closed
    /\ session' = [session EXCEPT ![c] = Ended(@)]
    /\ UNCHANGED <<accounts, call>>

\* conn.commit(): the changes of the transaction become the committed rows.
commit(c) ==
    /\ ~session[c].closed
    /\ accounts' = Overlay(accounts, session[c].written, session[c].deleted)
    /\ session' = [session EXCEPT ![c] = Ended(@)]
    /\ UNCHANGED call

\* rollback as it would be if it made the changes of the transaction
\* persistent.
rollback_persistent(c) ==
    /\ ~session[c].closed
    /\ accounts' = Overlay(accounts, session[c].written, session[c].deleted)
    /\ session' = [session EXCEPT ![c] = Ended(@)]
    /\ UNCHANGED call

\* conn.rollback(): the changes of the transaction are dropped.
rollback(c) ==
    /\ ~session[c].closed
    /\ session' = [session EXCEPT ![c] = Ended(@)]
    /\ UNCHANGED <<accounts, call>>

\* close as it would be if commit(), not rollback(), were performed
\* implicitly.
close_commits(c) ==
    /\ accounts' = Overlay(accounts, session[c].written, session[c].deleted)
    /\ session' = [session EXCEPT ![c] =
                     IF @.closed THEN @ ELSE [Ended(@) EXCEPT !.closed = TRUE]]
    /\ UNCHANGED call

\* conn.close(): "if we close() an open connection, rollback() will be
\* performed implicitly". Closing a closed connection does nothing.
close(c) ==
    /\ session' = [session EXCEPT ![c] =
                     IF @.closed THEN @ ELSE [Ended(@) EXCEPT !.closed = TRUE]]
    /\ UNCHANGED <<accounts, call>>

\* reset_db has run; conn1 is connected with autocommit = True, conn2 with
\* set_session(readonly=True, autocommit=True).
NotebookInit ==
    /\ accounts = ResetRows
    /\ session = [c \in Conns |->
                    IF c = "conn2" THEN [Connected EXCEPT !.readonly = TRUE]
                    ELSE Connected]
    /\ call = [c \in Conns |-> NoCall]
    /\ thread = NoThread

NotebookNext ==
    \/ \E c \in Conns, stmt \in Statements :
           WithinBound(c, stmt) /\ execute(c, stmt) /\ UNCHANGED thread
    \/ \E c \in Conns, isolation_level \in NotebookLevels,
          readonly \in BOOLEAN, autocommit \in BOOLEAN :
           set_session(c, isolation_level, readonly, autocommit) /\ UNCHANGED thread
    \/ \E c \in Conns : commit(c) /\ UNCHANGED thread
    \/ \E c \in Conns : rollback(c) /\ UNCHANGED thread
    \/ \E c \in Conns : close(c) /\ UNCHANGED thread

\* The cells of the notebook's Session Parameters section, in any order.
NotebookSpec == NotebookInit /\ [][NotebookNext]_vars

\* ------------------------------------------- an execution plan

\* The cell's thread is not inside a statement that waits.
Running == thread.waits = "None"

\* cur.execute(stmt) on connection c, where stmt writes a row that another
\* connection's unfinished transaction has changed: "locks cannot be acquired
\* and the cell will not terminate". The call has not returned, so the
\* statement has had no effect.
execute_waits(c, stmt) ==
    /\ ~session[c].closed
    /\ stmt.op # "SELECT" /\ ~session[c].readonly
    /\ Blocked(c, stmt)
    /\ thread' = [thread EXCEPT !.waits = c]
    /\ UNCHANGED <<accounts, session, call>>

\* The statements of a plan over the two connections, run by one cell and so
\* by one thread: the next statement is issued when the previous has returned.
PlanNext ==
    \/ \E c \in Conns, stmt \in Statements :
           Running /\ WithinBound(c, stmt) /\ execute(c, stmt) /\ UNCHANGED thread
    \/ \E c \in Conns, stmt \in Statements :
           Running /\ execute_waits(c, stmt)
    \/ \E c \in Conns, isolation_level \in NotebookLevels,
          readonly \in BOOLEAN, autocommit \in BOOLEAN :
           /\ Running
           /\ set_session(c, isolation_level, readonly, autocommit)
           /\ UNCHANGED thread
    \/ \E c \in Conns : Running /\ commit(c) /\ UNCHANGED thread
    \/ \E c \in Conns : Running /\ rollback(c) /\ UNCHANGED thread
    \/ \E c \in Conns : Running /\ close(c) /\ UNCHANGED thread

\* An execution plan, whatever its statements and session parameters.
PlanSpec == NotebookInit /\ [][PlanNext]_vars

\* ------------------------------------------- the cells, top to bottom

\* reset_db's rows: (1, 2000.0), (2, 520.0), (3, 470.0), (4, 1700.0),
\* (5, 2400.0).
AllResetRows == ResetRows @@ (4 :> 170000) @@ (5 :> 240000)

\* A name that is not bound to an open connection.
NotConnected == [Connected EXCEPT !.closed = TRUE]

\* psycopg2.connect(dsn): a connection with the default settings; autocommit
\* = False "is the default setting".
connect(c) ==
    /\ session' = [session EXCEPT ![c] = [Connected EXCEPT !.autocommit = FALSE]]
    /\ UNCHANGED <<accounts, call>>

\* The statements of a cell, each with its line in the notebook.
At(line, op, conn) == [line |-> line, op |-> op, conn |-> conn]
Set(line, conn, params) == [line |-> line, op |-> "set", conn |-> conn, params |-> params]
Execute(line, conn, stmt) == [line |-> line, op |-> "execute", conn |-> conn, stmt |-> stmt]

\* q_accounts, SELECT * FROM accounts: the ids the notebook's rows have.
q_accounts == [op |-> "SELECT", ids |-> {1, 2, 3, 4, 5, 6}]
\* q_acc, SELECT * FROM accounts WHERE id=1 OR id=3.
q_acc == [op |-> "SELECT", ids |-> {1, 3}]
\* q_acc, SELECT * FROM accounts WHERE id=2.
q_acc2 == [op |-> "SELECT", ids |-> {2}]

\* Basics: connect, auto-commit, query the whole table.
Cell93 ==
    << At(94, "connect", "conn1"),
       Set(97, "conn1", [autocommit |-> TRUE]),
       At(100, "cursor", "conn1"),
       At(103, "assign", "conn1"),
       Execute(106, "conn1", q_accounts),
       At(109, "print", "conn1"), At(110, "print", "conn1"),
       At(111, "print", "conn1"), At(112, "print", "conn1"),
       At(113, "print", "conn1") >>

Cell131 ==
    << At(132, "fetch", "conn1"), At(135, "print", "conn1"),
       At(138, "close_cursor", "conn1") >>

\* Read-Only: the INSERT raises ReadOnlySqlTransaction, so the try block's
\* two other statements are passed over and the except block prints; had it
\* succeeded, they would run and the except block be passed over.
Cell175 ==
    << Set(176, "conn1", [readonly |-> TRUE]),
       At(179, "cursor", "conn1"),
       Execute(183, "conn1", [op |-> "INSERT", id |-> 5, arg |-> 10000000])
           @@ [handler |-> 2],
       Execute(186, "conn1", [op |-> "SELECT", id |-> 5, arg |-> 0]),
       At(187, "print", "conn1") @@ [skip |-> 1],
       At(190, "print", "conn1"),
       At(194, "close_cursor", "conn1"),
       Set(197, "conn1", [readonly |-> FALSE]) >>

\* Auto-Commit.
Cell223 ==
    << Set(224, "conn1", [autocommit |-> TRUE]),
       At(227, "connect", "conn2"),
       Set(228, "conn2", [readonly |-> TRUE, autocommit |-> TRUE]),
       At(231, "cursor", "conn2"),
       At(234, "cursor", "conn1"),
       Execute(235, "conn1", [op |-> "INSERT", id |-> 6, arg |-> 23700]),
       Execute(238, "conn2", [op |-> "SELECT", id |-> 6, arg |-> 0]),
       At(239, "print", "conn2"),
       At(242, "close_cursor", "conn1"),
       At(243, "close_cursor", "conn2") >>

\* Commit Transaction: the two updates and the two queries.
Cell281 ==
    << Set(282, "conn1", [autocommit |-> FALSE]),
       At(285, "cursor", "conn1"),
       At(288, "cursor", "conn2"),
       Execute(291, "conn1", [op |-> "UPDATE", id |-> 3, arg |-> 0 - 10000]),
       Execute(294, "conn1", [op |-> "UPDATE", id |-> 1, arg |-> 10000]),
       At(297, "assign", "conn1"),
       Execute(298, "conn1", q_acc),
       Execute(299, "conn2", q_acc),
       At(300, "print", "conn1") >>

Cell325 ==
    << At(326, "commit", "conn1"),
       At(327, "print", "conn1"),
       Execute(330, "conn1", q_acc),
       Execute(331, "conn2", q_acc),
       At(332, "print", "conn1"),
       At(339, "close_cursor", "conn1"),
       At(340, "commit", "conn1"),
       At(341, "close_cursor", "conn2") >>

\* Rollback Transactions.
Cell377 ==
    << At(378, "cursor", "conn1"),
       At(381, "cursor", "conn2"),
       Execute(384, "conn1", [op |-> "UPDATE", id |-> 3, arg |-> 0 - 10000]),
       Execute(387, "conn1", [op |-> "UPDATE", id |-> 1, arg |-> 10000]),
       At(390, "assign", "conn1"),
       Execute(391, "conn1", q_acc),
       Execute(392, "conn2", q_acc),
       At(393, "print", "conn1") >>

\* Cell418 as it would be without its conn1.commit().
Cell418_uncommitted ==
    << At(419, "rollback", "conn1"),
       At(420, "print", "conn1"),
       Execute(423, "conn1", q_acc),
       Execute(424, "conn2", q_acc),
       At(425, "print", "conn1"),
       At(432, "close_cursor", "conn1"),
       At(434, "close_cursor", "conn2") >>

Cell418 ==
    << At(419, "rollback", "conn1"),
       At(420, "print", "conn1"),
       Execute(423, "conn1", q_acc),
       Execute(424, "conn2", q_acc),
       At(425, "print", "conn1"),
       At(432, "close_cursor", "conn1"),
       At(433, "commit", "conn1"),
       At(434, "close_cursor", "conn2") >>

\* Isolation Levels. The set_session of lines 493-494 is commented out: it
\* runs if the reader removes the comment signs.
Cell487 ==
    << Set(489, "conn1", [isolation_level |-> "READ_COMMITTED",
                          readonly |-> FALSE, autocommit |-> FALSE]),
       Set(491, "conn2", [isolation_level |-> "REPEATABLE_READ",
                          readonly |-> FALSE, autocommit |-> FALSE]),
       Set(493, "conn2", [isolation_level |-> "READ_COMMITTED",
                          readonly |-> FALSE, autocommit |-> FALSE])
           @@ [commented |-> TRUE],
       At(498, "cursor", "conn1"),
       At(499, "cursor", "conn2"),
       At(502, "assign", "conn1"),
       Execute(503, "conn1", q_acc2),
       Execute(504, "conn2", q_acc2),
       At(505, "print", "conn1") >>

Cell529 ==
    << Execute(530, "conn1", [op |-> "UPDATE", id |-> 2, arg |-> 0 - 5000]),
       At(531, "commit", "conn1"),
       At(532, "print", "conn1"),
       At(535, "assign", "conn1"),
       Execute(536, "conn1", q_acc2),
       Execute(537, "conn2", q_acc2),
       At(538, "print", "conn1"),
       At(544, "close_cursor", "conn1"),
       At(545, "close_cursor", "conn2"),
       At(546, "close", "conn1"),
       At(547, "close", "conn2") >>

\* The notebook's demonstration: its cells from the first connect to the last
\* close, in order.
Script ==
    Cell93 \o Cell131 \o Cell175 \o Cell223 \o Cell281 \o Cell325
           \o Cell377 \o Cell418 \o Cell487 \o Cell529

\* The statement the thread is at, and its connection.
Step == Script[thread.pc]

\* The thread goes on to the n-th statement after this one.
Advance(n) == thread' = [thread EXCEPT !.pc = @ + n]

\* The value an assignment or a set_session call gives a session parameter:
\* the one it names, or the one the connection has.
Param(step, name) ==
    IF name \in DOMAIN step.params THEN step.params[name]
    ELSE session[step.conn][name]

\* reset_db has run; no connection is open; the thread is at the first
\* statement.
ScriptInit ==
    /\ accounts = AllResetRows
    /\ session = [c \in Conns |-> NotConnected]
    /\ call = [c \in Conns |-> NoCall]
    /\ thread = [NoThread EXCEPT !.pc = 1]

\* The thread is at a statement of kind op.
Doing(op) == thread.pc \in DOMAIN Script /\ Step.op = op

\* The thread runs the statement it is at.
ScriptNext ==
    \/ Doing("connect") /\ connect(Step.conn) /\ Advance(1)
    \/ /\ Doing("set")
       /\ set_session(Step.conn, Param(Step, "isolation_level"),
                      Param(Step, "readonly"), Param(Step, "autocommit"))
       /\ Advance(1)
    \/ /\ Doing("set") /\ "commented" \in DOMAIN Step
       /\ UNCHANGED <<accounts, session, call>>
       /\ Advance(1)
    \/ /\ Doing("execute")
       /\ execute(Step.conn, Step.stmt)
       /\ Advance(IF session'[Step.conn].raised # "None" /\ "handler" \in DOMAIN Step
                  THEN 1 + Step.handler ELSE 1)
    \/ Doing("commit") /\ commit(Step.conn) /\ Advance(1)
    \/ Doing("rollback") /\ rollback(Step.conn) /\ Advance(1)
    \/ Doing("close") /\ close(Step.conn) /\ Advance(1)
    \/ /\ \E op \in {"cursor", "assign", "fetch", "print", "close_cursor"} : Doing(op)
       /\ UNCHANGED <<accounts, session, call>>
       /\ Advance(IF "skip" \in DOMAIN Step THEN 1 + Step.skip ELSE 1)

ScriptSpec == ScriptInit /\ [][ScriptNext]_vars

\* ------------------------------------------------- what the claims use

\* A finished invocation.
Done(r) == r.pc = "done"

\* amount > 0 and 0 <= fee rate <= 1 (100 percent).
ValidArgs(r) == r.amount > 0 /\ r.fee >= 0 /\ r.fee <= 100

\* What the source account has to pay: amount + fee.
Cost(r) == r.amount + Fee(r.amount, r.fee)

\* The three parties of the request are three different accounts.
DistinctParties(r) == r.src # r.dst /\ r.src # BankId /\ r.dst # BankId

\* The accounts the request needs exist in ledger l.
PartiesExist(r, l) ==
    /\ r.src \in DOMAIN l
    /\ r.dst \in DOMAIN l
    /\ (Fee(r.amount, r.fee) > 0 => BankId \in DOMAIN l)

RECURSIVE SumOver(_, _)
SumOver(l, S) ==
    IF S = {} THEN 0
    ELSE LET i == CHOOSE j \in S : TRUE IN l[i] + SumOver(l, S \ {i})

\* The sum of all balances of ledger l.
Total(l) == SumOver(l, DOMAIN l)

NonNegative(l) == \A i \in DOMAIN l : l[i] >= 0

\* The invocation committed its transfer / was refused with exception e.
Committed(r) ==
    Done(r) /\ r.raised = "None" /\ r.post = Applied(r.pre, r.src, r.dst, r.amount, r.fee)
Refused(r, e) == Done(r) /\ r.raised = e /\ r.post = r.pre

\* Two finished invocations that ran at the same time on two connections.
Concurrent(c, d) ==
    /\ c # d
    /\ Done(call[c]) /\ Done(call[d])
    /\ d \in call[c].overlapped /\ c \in call[d].overlapped

\* ------------------------------------------------------------ claims

\* C1: a transfer with valid arguments between three different existing
\* accounts (src, dst, bank) whose source holds at least amount + fee returns
\* normally, and leaves src at src - amount - fee, dst at dst + amount and
\* the bank at bank + fee.
C1_TransferApplied ==
    \A c \in Conns :
        LET r == call[c]
            f == Fee(r.amount, r.fee)
        IN  (/\ Done(r) /\ ValidArgs(r) /\ DistinctParties(r)
             /\ {r.src, r.dst, BankId} \subseteq DOMAIN r.pre
             /\ r.pre[r.src] >= r.amount + f)
            => /\ r.raised = "None"
               /\ DOMAIN r.post = DOMAIN r.pre
               /\ r.post[r.src] = r.pre[r.src] - r.amount - f
               /\ r.post[r.dst] = r.pre[r.dst] + r.amount
               /\ r.post[BankId] = r.pre[BankId] + f

\* C2: every transfer invocation, whatever its outcome and on whichever
\* connection, leaves the sum of the committed balances what it was.
C2_Conservation ==
    \A c \in Conns :
        Done(call[c]) =>
            /\ DOMAIN call[c].post = DOMAIN call[c].pre
            /\ Total(call[c].post) = Total(call[c].pre)

\* C2's case: on two connections, one transfer that can be afforded (with a
\* fee) and one that cannot have both been invoked and have finished.
C2_Witness ==
    \E c, d \in Conns :
        /\ c # d /\ Done(call[c]) /\ Done(call[d])
        /\ ValidArgs(call[c]) /\ DistinctParties(call[c])
        /\ PartiesExist(call[c], call[c].pre)
        /\ Fee(call[c].amount, call[c].fee) > 0
        /\ call[c].pre[call[c].src] >= Cost(call[c])
        /\ PartiesExist(call[d], call[d].pre)
        /\ call[d].pre[call[d].src] < Cost(call[d])
        /\ Total(call[c].post) = Total(call[c].pre)

\* C3: starting from setUp's non-negative balances, no committed balance is
\* ever negative, however many transfers run and overlap.
C3_NoOverdraft == NonNegative(accounts)

\* C3's case: two transfers from the same source, each affordable, together
\* more than the source holds, ran at the same time and have finished.
C3_Witness ==
    \E c, d \in Conns :
        /\ Concurrent(c, d)
        /\ call[c].src = call[d].src
        /\ DistinctParties(call[c]) /\ DistinctParties(call[d])
        /\ PartiesExist(call[c], call[c].pre) /\ PartiesExist(call[d], call[d].pre)
        /\ call[c].pre[call[c].src] >= Cost(call[c])
        /\ call[d].pre[call[d].src] >= Cost(call[d])
        /\ call[c].pre[call[c].src] < Cost(call[c]) + Cost(call[d])
        /\ NonNegative(accounts)

\* C4: of two transfers from the same source that ran at the same time on two
\* SERIALIZABLE connections, each affordable and together more than the
\* source holds, exactly one committed and the other was refused with
\* SerializationFailure.
C4_ExactlyOneCommits ==
    \A c, d \in Conns :
        LET rc == call[c]
            rd == call[d]
            before == IF rc.pre[rc.src] >= rd.pre[rc.src]
                      THEN rc.pre[rc.src] ELSE rd.pre[rc.src]
        IN  (/\ Concurrent(c, d)
             /\ session[c].isolation_level = "SERIALIZABLE"
             /\ session[d].isolation_level = "SERIALIZABLE"
             /\ rc.src = rd.src
             /\ ValidArgs(rc) /\ ValidArgs(rd)
             /\ DistinctParties(rc) /\ DistinctParties(rd)
             /\ {rc.src, rc.dst, rd.dst, BankId} \subseteq DOMAIN rc.pre
             /\ {rc.src, rc.dst, rd.dst, BankId} \subseteq DOMAIN rd.pre
             /\ Cost(rc) <= before /\ Cost(rd) <= before
             /\ Cost(rc) + Cost(rd) > before)
            => \/ Committed(rc) /\ Refused(rd, "SerializationFailure")
               \/ Committed(rd) /\ Refused(rc, "SerializationFailure")

\* C6: a transfer with valid arguments between existing accounts whose source
\* holds less than amount + fee is refused with InsufficientFunds and changes
\* no balance.
C6_InsufficientFunds ==
    \A c \in Conns :
        LET r == call[c] IN
        (/\ Done(r) /\ ValidArgs(r)
         /\ PartiesExist(r, r.pre)
         /\ r.pre[r.src] < Cost(r))
        => Refused(r, "InsufficientFunds")

\* C7: a transfer with valid arguments that names a source or a destination
\* that does not exist, or that has a fee to pay when account 0 does not
\* exist, is refused with AccountNotFound; no balance changes, no account is
\* created.
C7_AccountNotFound ==
    \A c \in Conns :
        LET r == call[c] IN
        (Done(r) /\ ValidArgs(r) /\ ~PartiesExist(r, r.pre))
        => Refused(r, "AccountNotFound")

\* C12: once transfer_money has returned normally on a connection that setUp
\* had put in auto-commit mode, the connection has autocommit = False,
\* readonly = False and isolation level SERIALIZABLE (test_sessionparamas).
\* Under Spec every connection is in auto-commit mode when the call is made.
C12_SessionParams ==
    \A c \in Conns :
        (Done(call[c]) /\ call[c].raised = "None")
        => /\ session[c].autocommit = FALSE
           /\ session[c].readonly = FALSE
           /\ session[c].isolation_level = "SERIALIZABLE"

\* The session parameters of a connection.
Params(s) == <<s.isolation_level, s.readonly, s.autocommit>>

\* A transaction is being performed on connection c.
InTransaction(c) == session[c].status = "BEGIN"

\* C13: session parameters change only between transactions. No step that
\* starts while connection c performs a transaction changes c's isolation
\* level, readonly or autocommit; a setter is refused (ProgrammingError, the
\* spec's SessionConfigurationError) only while a transaction is performed,
\* and then leaves the connection and its transaction as they were; with no
\* transaction the setter is not refused.
C13_ParametersBetweenTransactions ==
    [][\A c \in Conns :
          /\ InTransaction(c) => Params(session'[c]) = Params(session[c])
          /\ (session'[c] # session[c] /\ session'[c].raised = "ProgrammingError")
                => /\ InTransaction(c)
                   /\ session'[c] = [session[c] EXCEPT !.raised = "ProgrammingError"]
          /\ (~InTransaction(c) /\ Params(session'[c]) # Params(session[c]))
                => session'[c].raised = "None" /\ ~InTransaction(c)'
      ]_vars

\* C13's case: a setter was refused on a connection whose transaction has
\* written a row, and a setter has succeeded on the other connection, which
\* performs no transaction.
C13_Witness ==
    \E c, d \in Conns :
        /\ InTransaction(c)
        /\ session[c].raised = "ProgrammingError"
        /\ DOMAIN session[c].written # {}
        /\ ~InTransaction(d)
        /\ session[d].isolation_level = "REPEATABLE_READ"
        /\ session[d].raised = "None"

\* The rows connection c's transaction has changed and not committed.
Pending(c) == <<session[c].written, session[c].deleted>>
PendingIds(c) == DOMAIN session[c].written \cup session[c].deleted

C15_RepeatableRead ==
    [][\A c \in Conns :
          /\ (/\ session[c].isolation_level = "REPEATABLE_READ"
              /\ InTransaction(c) /\ InTransaction(c)')
                => \A i \in (DOMAIN View(c) \cup DOMAIN View(c)') \ PendingIds(c)' :
                       RowOf(View(c)', i) = RowOf(View(c), i)
          /\ session'[c].fetched # session[c].fetched
                => session'[c].fetched = RowOf(View(c)', 3)
          /\ session'[c].isolation_level = "READ_COMMITTED"
                => \A i \in DOMAIN accounts' \ PendingIds(c)' :
                       RowOf(View(c)', i) = RowOf(accounts', i)
      ]_vars

\* C15's case, as in the cell after conn1.commit(): a REPEATABLE READ
\* transaction has read the balance of account 3, the committed balance has
\* changed since, the transaction still reads the old one, and the other
\* connection, at READ COMMITTED, has read the new one.
C15_Witness ==
    \E c, d \in Conns :
        /\ session[c].isolation_level = "REPEATABLE_READ" /\ InTransaction(c)
        /\ 3 \notin PendingIds(c)
        /\ session[c].fetched = RowOf(View(c), 3)
        /\ session[c].fetched # RowOf(accounts, 3)
        /\ session[d].isolation_level = "READ_COMMITTED"
        /\ session[d].fetched = RowOf(accounts, 3)
        /\ PendingIds(d) = {}

\* C16, as stated: once a connection has rolled its transaction back, the
\* committed rows are what they were, the connection has no transaction, and
\* every connection with no uncommitted changes of its own, the one that
\* rolled back and every other, reads exactly the committed balances.
C16_AllReadLastCommitted ==
    [][\A c \in Conns :
          (InTransaction(c) /\ rollback(c))
            => /\ accounts' = accounts
               /\ ~InTransaction(c)'
               /\ \A d \in Conns : PendingIds(d)' = {} => View(d)' = accounts'
      ]_vars

\* C16, amended: rollback() is never refused; it leaves the committed rows
\* what they were and the connection without transaction or uncommitted
\* change, reading exactly the committed balances; what every other
\* connection reads is what it read before the rollback, and is the
\* committed balances unless that connection has uncommitted changes of its
\* own or reads from the snapshot of its REPEATABLE READ transaction.
C16_Rollback ==
    [][\A c \in Conns :
          rollback(c)
            => /\ accounts' = accounts
               /\ session'[c].raised = "None"
               /\ ~InTransaction(c)'
               /\ PendingIds(c)' = {}
               /\ View(c)' = accounts'
               /\ \A d \in Conns \ {c} :
                      /\ View(d)' = View(d)
                      /\ (PendingIds(d)' = {} /\ Base(d)' = accounts')
                           => View(d)' = accounts'
      ]_vars

\* C16's case, as in the cell after conn1.rollback(): a connection without
\* autocommit has read a balance of account 3 that was never committed (its
\* own update), has no transaction any more and is open, so that it has
\* rolled back, and the other connection, inside a REPEATABLE READ
\* transaction, reads an older balance than the committed one.
C16_Witness ==
    \E c, d \in Conns :
        /\ ~session[c].autocommit /\ ~session[c].closed /\ ~InTransaction(c)
        /\ session[c].fetched = {<<3, ResetRows[3] - 10000>>}
        /\ accounts[3] = ResetRows[3]
        /\ View(c) = accounts
        /\ c # d /\ InTransaction(d) /\ PendingIds(d) = {}
        /\ View(d) # accounts

\* C17: close() is never refused. It leaves the committed rows and what every
\* other connection reads as they were, and the connection closed, without
\* transaction or uncommitted change, so that no write of the transaction it
\* interrupted is ever read by anyone; on a closed connection it changes
\* nothing; and a closed connection never changes again.
C17_Close ==
    [][\A c \in Conns :
          /\ close(c)
                => /\ accounts' = accounts
                   /\ session'[c].closed
                   /\ session'[c].raised = "None"
                   /\ ~InTransaction(c)'
                   /\ PendingIds(c)' = {}
                   /\ \A d \in Conns \ {c} : View(d)' = View(d)
                   /\ session[c].closed => session'[c] = session[c]
          /\ session[c].closed => session'[c] = session[c]
      ]_vars

\* C17's case: a connection without autocommit has read a balance of account
\* 3 that was never committed (its own update) and is closed, while the
\* other connection, still open, has read the committed balance, which is
\* the one reset_db inserted. (close() reaches this state from inside the
\* transaction, and also after an explicit rollback().)
C17_Witness ==
    \E c, d \in Conns :
        /\ session[c].closed /\ ~session[c].autocommit
        /\ session[c].fetched = {<<3, ResetRows[3] - 10000>>}
        /\ accounts[3] = ResetRows[3]
        /\ ~session[d].closed
        /\ session[d].fetched = {<<3, ResetRows[3]>>}

\* Table l once the write statement stmt has been carried out on it.
Executed(l, stmt) ==
    IF stmt.op = "UPDATE"
    THEN [i \in DOMAIN l |-> IF i = stmt.id THEN l[i] + stmt.arg ELSE l[i]]
    ELSE IF stmt.op = "INSERT" THEN (stmt.id :> stmt.arg) @@ l
    ELSE IF stmt.op = "DELETE" THEN [i \in DOMAIN l \ {stmt.id} |-> l[i]]
    ELSE l

\* What C18 says of a statement executed with autocommit = True, the
\* connections of Readers being the ones that have to read a write at once:
\* the connection has no transaction afterwards; a successful write is
\* committed, and what it changed is read by the Readers; a failing statement
\* changes neither the committed rows nor what any connection reads.
AutocommitStatement(c, stmt, Readers) ==
    /\ ~InTransaction(c)'
    /\ PendingIds(c)' = {}
    /\ session'[c].raised = "None"
          => /\ accounts' = Executed(accounts, stmt)
             /\ (stmt.op # "SELECT" /\ accounts' # accounts)
                   => \A d \in Readers :
                          RowOf(View(d)', stmt.id) = RowOf(accounts', stmt.id)
    /\ session'[c].raised # "None"
          => /\ accounts' = accounts
             /\ \A d \in Conns : View(d)' = View(d)

ViolatedBy(r, l) ==
    {k \in 1 .. 5 :
        \/ k = 1 /\ ~ValidArgs(r)
        \/ k = 2 /\ r.src \notin DOMAIN l
        \/ k = 3 /\ r.dst \notin DOMAIN l
        \/ k = 4 /\ Fee(r.amount, r.fee) > 0 /\ BankId \notin DOMAIN l
        \/ k = 5 /\ r.src \in DOMAIN l /\ l[r.src] < Cost(r)}

\* The exception of the k-th precondition.
ErrorOfPrecondition(k) ==
    IF k = 1 THEN "InvalidArgument"
    ELSE IF k = 2 THEN "AccountNotFound(src)"
    ELSE IF k = 3 THEN "AccountNotFound(dst)"
    ELSE IF k = 4 THEN "AccountNotFound(0)"
    ELSE "InsufficientFunds"

\* C20: a transfer that violates several preconditions at once is refused
\* with the exception of the first one it violates, in the order arguments,
\* src, dst, bank, funds, and changes no balance.
C20_FirstViolatedPrecondition ==
    \A c \in Conns :
        LET r == call[c]
            v == ViolatedBy(r, r.pre)
        IN  (Done(r) /\ Cardinality(v) >= 2)
            => Refused(r, ErrorOfPrecondition(CHOOSE k \in v : \A j \in v : k <= j))

\* C21: the bank's account is needed only when there is a fee to pay. With
\* valid arguments, src and dst existing and no account 0: a transfer whose
\* fee is 0 and whose source holds the amount is applied and returns
\* normally; a transfer whose fee is greater than 0 is refused with
\* AccountNotFound(0) and changes no balance.
C21_BankNeededForFee ==
    \A c \in Conns :
        LET r == call[c] IN
        (/\ Done(r) /\ ValidArgs(r)
         /\ {r.src, r.dst} \subseteq DOMAIN r.pre
         /\ BankId \notin DOMAIN r.pre)
        => IF Fee(r.amount, r.fee) = 0
           THEN r.pre[r.src] >= r.amount => Committed(r)
           ELSE Refused(r, "AccountNotFound(0)")

\* The invocation ended rolled back: it raised and changed no balance.
RolledBack(r) == Done(r) /\ r.raised # "None" /\ r.post = r.pre

\* C22: an invocation ends Committed or RolledBack; it ends RolledBack when a
\* precondition does not hold, and Committed only when every precondition
\* holds and the three deltas were applied.
C22_Outcome ==
    \A c \in Conns :
        LET r == call[c] IN
        Done(r) =>
            IF ViolatedBy(r, r.pre) # {}
            THEN RolledBack(r)
            ELSE Committed(r) \/ RolledBack(r)

\* C26: once transfer_money has returned or raised, its connection has no
\* transaction in progress and no uncommitted change, and no session
\* parameter was refused; so the next call on the same connection can set
\* its session parameters.
C26_NoTransactionLeftOpen ==
    \A c \in Conns :
        Done(call[c]) =>
            /\ ~InTransaction(c)
            /\ PendingIds(c) = {}
            /\ session[c].raised # "ProgrammingError"

\* C26's case: test_accountexist's third call, a transfer with a fee to pay
\* and no account 0, has finished on one connection while the other connection
\* has finished a transfer from a source that does not exist; neither
\* connection is in a transaction.
C26_Witness ==
    \E c, d \in Conns :
        /\ c # d /\ Done(call[c]) /\ Done(call[d])
        /\ BankId \notin DOMAIN call[c].pre
        /\ Fee(call[c].amount, call[c].fee) > 0
        /\ call[d].src \notin DOMAIN call[d].pre
        /\ ~InTransaction(c) /\ ~InTransaction(d)

\* C28: when the parties of a transfer with valid arguments coincide, the
\* accounts exist and the source holds amount + fee, the call returns
\* normally with the three deltas added up per row: for src = dst the account
\* ends at balance - fee and the bank at bank + fee; for dst = 0 the bank ends
\* at bank + amount + fee; for src = 0 the bank ends at bank - amount. The sum
\* of the balances is what it was and no balance is negative.
C28_CoincidingParties ==
    \A c \in Conns :
        LET r == call[c]
            f == Fee(r.amount, r.fee)
        IN  (/\ Done(r) /\ ValidArgs(r) /\ ~DistinctParties(r)
             /\ {r.src, r.dst, BankId} \subseteq DOMAIN r.pre
             /\ r.pre[r.src] >= Cost(r))
            => /\ r.raised = "None"
               /\ DOMAIN r.post = DOMAIN r.pre
               /\ (r.src = r.dst /\ r.src # BankId)
                      => /\ r.post[r.src] = r.pre[r.src] - f
                         /\ r.post[BankId] = r.pre[BankId] + f
               /\ (r.dst = BankId /\ r.src # BankId)
                      => /\ r.post[BankId] = r.pre[BankId] + r.amount + f
                         /\ r.post[r.src] = r.pre[r.src] - r.amount - f
               /\ (r.src = BankId /\ r.dst # BankId)
                      => /\ r.post[BankId] = r.pre[BankId] - r.amount
                         /\ r.post[r.dst] = r.pre[r.dst] + r.amount
               /\ Total(r.post) = Total(r.pre)
               /\ NonNegative(r.post)

\* C23: a transfer whose amount is not positive or whose fee rate is outside
\* [0, 1] is refused with InvalidArgument and changes no balance, whether or
\* not its accounts exist.
C23_InvalidArgument ==
    \A c \in Conns :
        (Done(call[c]) /\ ~ValidArgs(call[c]))
        => Refused(call[c], "InvalidArgument")

\* C27: every invocation that was entered ends Committed or RolledBack, also
\* when another invocation runs at the same time on the same accounts.
C27_EndsCommittedOrRolledBack ==
    \A c \in Conns :
        (call[c].pc = "running") ~> (Committed(call[c]) \/ RolledBack(call[c]))

\* Statement stmt on connection c writes a committed row that another
\* connection has changed in a transaction it has not finished.
WritesLockedRow(c, stmt) ==
    /\ stmt.op # "SELECT" /\ ~session[c].readonly
    /\ stmt.id \in DOMAIN accounts
    /\ \E d \in Conns \ {c} : InTransaction(d) /\ stmt.id \in PendingIds(d)

\* C25: in a plan run by one thread, a write to a row that another connection
\* has written in a transaction it has not finished does not return, and
\* from then on nothing happens: no statement runs, no transaction ends, the
\* lock is never released. A statement waits only while a connection without
\* autocommit is in a transaction; with autocommit = True on all connections
\* no row is locked and no statement can wait.
C25_PlanWaitsForever ==
    [][/\ Running
       /\ \A c \in Conns, stmt \in Statements :
             /\ WritesLockedRow(c, stmt) => ~execute(c, stmt)
             /\ execute_waits(c, stmt)
                   => /\ ~Running'
                      /\ \E d \in Conns \ {c} : ~session[d].autocommit /\ InTransaction(d)
       /\ (\A d \in Conns : session[d].autocommit)
             => \A c \in Conns :
                    /\ PendingIds(c) = {}
                    /\ \A stmt \in Statements : ~ENABLED execute_waits(c, stmt)
      ]_vars

\* C25's case: two connections without autocommit; one has updated account 3
\* and not committed, and the thread is inside the other's write to account 3.
C25_Witness ==
    \E c, d \in Conns :
        /\ c # d
        /\ thread.waits = c
        /\ ~session[c].autocommit /\ ~session[d].autocommit
        /\ InTransaction(d) /\ 3 \in PendingIds(d)
        /\ accounts = ResetRows

\* C29: in the notebook's cells, run top to bottom, every assignment to a
\* session parameter and every set_session call is executed on a connection
\* that has no transaction in progress: it is not refused, and the connection
\* has the parameters it names afterwards.
C29_ParametersSetOutsideTransactions ==
    [][(thread.pc \in DOMAIN Script /\ Step.op = "set" /\ thread' # thread)
          => LET c == Step.conn IN
             /\ ~InTransaction(c)
             /\ PendingIds(c) = {}
             /\ ("commented" \notin DOMAIN Step \/ session' # session)
                   => /\ session'[c].raised # "ProgrammingError"
                      /\ \A name \in DOMAIN Step.params :
                             session'[c][name] = Step.params[name]
      ]_vars

\* C29's case: the notebook has run to its last line; both connections are
\* closed, and conn1's withdrawal from account 2 is committed.
C29_Witness ==
    /\ thread.pc = Len(Script) + 1
    /\ \A c \in Conns : session[c].closed
    /\ accounts[2] = AllResetRows[2] - 5000
    /\ session["conn2"].isolation_level = "REPEATABLE_READ"

====
